---- MODULE Spec2Model ----
(***************************************************************************)
(* Model of reprompt: the streaming completion client with cooperative     *)
(* cancellation (src/src/ollama.rs), the per-prompt generation state       *)
(* machine and history (src/src/prompt.rs) and the frame loop, action      *)
(* handling and model catalog of the application (src/src/app.rs).         *)
(*                                                                         *)
(* Strings that are built by concatenation (transcripts) are sequences of  *)
(* chunks; `a += b` is \o.  Rust indices are 0-based, the sequences here   *)
(* are 1-based: history[0] in the code is history[1] here.                 *)
(* A step of the foreground thread is one frame (App::update): App::show,  *)
(* which polls the mailboxes and yields at most one action, followed by    *)
(* App::handle_action.  Background tasks are processes whose positions are *)
(* the await points of the spawned futures.                                *)
(***************************************************************************)
EXTENDS Integers, Sequences, FiniteSets, TLC

VARIABLES prompts, view, ollama_models, flowers, load_flower, tasks, loads,
          action, crashed

vars == <<prompts, view, ollama_models, flowers, load_flower, tasks, loads,
          action, crashed>>

(* ------------------------------ bounds --------------------------------- *)
\* generation tasks spawned in one run
MaxTasks == 2
\* fragments one remote stream yields before it ends (client alone)
MaxFrags == 2
\* fragments one remote stream yields before it ends (whole application)
MaxGenFrags == 1
\* catalog-load tasks spawned in one run
MaxLoads == 2
\* entries of the persisted history the application starts with
MaxInitHist == 0
\* prompts the application starts with when generations run side by side
MaxPrompts == 2
\* prompts the application starts with when prompts are removed
MaxStored == 3
\* entries of the persisted history when single operations are applied
MaxOpsHist == 2

\* fragments the remote may yield: each is a non-empty list of chunks
Fragments == {<<"a">>, <<"b", "c">>}
\* the fragments drawn when the whole application runs
GenFragments == {<<"a", "b">>}
\* texts the user may type into the input field
Inputs == {"q"}
\* texts the user may type when the input field is edited between generations
Texts == {"q", "r"}
\* names of the models the remote catalog may list
Models == {"m1", "m2", "m3"}

None == [kind |-> "None"]

(* ------------------------------ helpers -------------------------------- *)
RECURSIVE Flatten(_)
\* concatenation of the chunks of a list of fragments, in arrival order
Flatten(fs) == IF fs = <<>> THEN <<>> ELSE Head(fs) \o Flatten(Tail(fs))

IsPrefix(s, t) == Len(s) <= Len(t) /\ SubSeq(t, 1, Len(s)) = s

\* VecDeque::remove / Vec::remove at a 1-based position; out of range is a no-op
\* for VecDeque (returns None)
RemoveAt(s, i) ==
    IF i \in 1..Len(s) THEN SubSeq(s, 1, i - 1) \o SubSeq(s, i + 1, Len(s)) ELSE s

(* ------------------------- ResultMailbox (flower) ----------------------- *)
\* CompactFlower::new: Idle, nothing buffered, no terminal result
NewFlower == [activated |-> FALSE, queue |-> <<>>, result |-> [k |-> "none"]]

\* handle.activate()
activate(f) == [f EXCEPT !.activated = TRUE]

\* handle.send(progress): the value is buffered for the next poll
send(f, v, by) == [f EXCEPT !.queue = Append(@, [val |-> v, by |-> by])]

\* handle.success(value)
success(f, v, by) == [f EXCEPT !.result = [k |-> "ok", val |-> v, by |-> by]]

\* handle.error(value): Compact::Suppose on the consumer side
error(f, by) == [f EXCEPT !.result = [k |-> "err", val |-> <<>>, by |-> by]]

\* the producer task terminated abnormally: Compact::Panicked on the consumer side
panicked(f, by) == [f EXCEPT !.result = [k |-> "panic", val |-> <<>>, by |-> by]]

\* flower.is_active()
is_active(f) == f.activated

(* ------------------------- background generation tasks ----------------- *)
\* anyhow::Result<String> values of generate_completion
Ok(v) == [k |-> "ok", val |-> v]
Err == [k |-> "err", val |-> <<>>]
NoResult == [k |-> "none", val |-> <<>>]

\* items of the remote stream: Some(Ok(fragment)), None (end), Some(Err(e))
StreamItems == [k : {"frag"}, chunks : Fragments]
               \cup {[k |-> "end", chunks |-> <<>>], [k |-> "err", chunks |-> <<>>]}
Pending == [k |-> "pending", chunks |-> <<>>]

\* The future spawned by ask_ollama for flower fid, to ask question.  pc is
\* its await point:
\*   "spawned"  not yet run            "opening"  awaiting generate_stream
\*   "select"   at tokio::select!      "chunks"   inside `for n in next`
\*   "done"     terminal result published
\* rx is the broadcast receiver: "unsub" before get_cancel_receiver (and after
\* the future returned), "empty", "signalled" (one value is waiting) or
\* "lagged" (the channel of capacity 1 was overrun: recv() returns Err(Lagged)).
\* The other fields record the run for the properties and are never read by
\* an action's guard or effect: frags the fragments consumed, result what
\* generate_completion returned, by_cancel whether the cancel branch returned
\* it, dl the progress values and term the number of terminal results a poll
\* handed over, pre_len the history length before generate_response, solo
\* whether the task was the only producer on its mailbox, stopped whether
\* StopPromptGeneration was handled for its prompt while it ran, and (client alone)
\* cancel_at the number of fragments consumed at the first cancel_generation
\* call, sub_at whether the receiver existed then, ready_at whether a stream
\* item was available then, ready_after whether one became available later.
NewTask(fid, question, len, alone) ==
    [flower |-> fid, question |-> question,
     pc |-> "spawned", response |-> <<>>, rx |-> "unsub",
     next |-> Pending, todo |-> <<>>,
     frags |-> <<>>, result |-> NoResult, cancel_at |-> -1, sub_at |-> FALSE,
     ready_at |-> FALSE, ready_after |-> FALSE,
     by_cancel |-> FALSE, stopped |-> FALSE, dl |-> <<>>, term |-> 0, pre_len |-> len, solo |-> alone]

\* a generation is in flight from its spawn until it published its terminal result
InFlight(t) == tasks[t].pc # "done"

\* response = n.response: the chunk replaces the transcript
AccumulateReplace(response, chunk) == <<chunk>>
\* response += &n.response
Accumulate(response, chunk) == Append(response, chunk)

\* the value generate_completion returns when the cancel branch of select! wins
CancelOutcomeErr(response) == Err
CancelOutcome(response) == Ok(response)

\* ask_ollama: Ok(response) => handle.success(response), Err(e) => handle.error(..)
Publish(f, res, by) ==
    IF res.k = "ok" THEN success(f, res.val, by) ELSE error(f, by)

\* the future returns res and the handle publishes it
Finish(t, res, cancelled) ==
    /\ tasks' = [tasks EXCEPT ![t].pc = "done", ![t].rx = "unsub", ![t].result = res,
                              ![t].by_cancel = cancelled, ![t].todo = <<>>,
                              ![t].next = Pending]
    /\ flowers' = [flowers EXCEPT ![tasks[t].flower] = Publish(@, res, t)]

TaskUnchanged == UNCHANGED <<prompts, view, ollama_models, load_flower, loads,
                             action, crashed>>

\* handle.activate(), then generate_completion starts opening the stream
TaskActivate(t) ==
    /\ ~crashed /\ t \in DOMAIN tasks /\ tasks[t].pc = "spawned"
    /\ tasks' = [tasks EXCEPT ![t].pc = "opening"]
    /\ flowers' = [flowers EXCEPT ![tasks[t].flower] = activate(@)]
    /\ TaskUnchanged

\* OpenOk with a receiver that also sees a cancel sent before it was created
OpenOkSeesPast(t) ==
    /\ ~crashed /\ t \in DOMAIN tasks /\ tasks[t].pc = "opening"
    /\ tasks' = [tasks EXCEPT ![t].pc = "select",
                              ![t].rx = IF tasks[t].cancel_at # -1 THEN "signalled"
                                        ELSE "empty"]
    /\ UNCHANGED flowers
    /\ TaskUnchanged
\* generate_stream(..).await returned Ok: response = "", then the receiver is created
OpenOk(t) ==
    /\ ~crashed /\ t \in DOMAIN tasks /\ tasks[t].pc = "opening"
    /\ tasks' = [tasks EXCEPT ![t].pc = "select", ![t].rx = "empty"]
    /\ UNCHANGED flowers
    /\ TaskUnchanged

\* generate_stream(..).await? returned Err
OpenErr(t) ==
    /\ ~crashed /\ t \in DOMAIN tasks /\ tasks[t].pc = "opening"
    /\ Finish(t, Err, FALSE)
    /\ TaskUnchanged

\* the remote makes the next item of the stream available
StreamYield(t, item) ==
    /\ ~crashed /\ t \in DOMAIN tasks /\ tasks[t].pc = "select"
    /\ tasks[t].next = Pending
    /\ item \in StreamItems
    /\ item.k = "frag" => Len(tasks[t].frags) < MaxFrags
    /\ tasks' = [tasks EXCEPT ![t].next = item,
                              ![t].ready_after = @ \/ tasks[t].cancel_at # -1]
    /\ UNCHANGED flowers
    /\ TaskUnchanged

\* the stream branch of select! with Some(Err(e)) handled like the end of the
\* stream (break instead of return Err)
ConsumeItemErrAsEnd(t, item) ==
    CASE item.k = "frag" ->
           LET r == Accumulate(tasks[t].response, Head(item.chunks)) IN
           /\ tasks' = [tasks EXCEPT ![t].next = Pending,
                           ![t].frags = Append(@, item.chunks),
                           ![t].response = r,
                           ![t].todo = Tail(item.chunks),
                           ![t].pc = IF Tail(item.chunks) = <<>> THEN "select" ELSE "chunks"]
           /\ flowers' = [flowers EXCEPT ![tasks[t].flower] = send(@, r, t)]
      [] OTHER -> Finish(t, Ok(tasks[t].response), FALSE)
\* the stream branch of select! with maybe_next = item
ConsumeItem(t, item) ==
    CASE item.k = "frag" ->
           \* first iteration of `for n in next`
           LET r == Accumulate(tasks[t].response, Head(item.chunks)) IN
           /\ tasks' = [tasks EXCEPT ![t].next = Pending,
                           ![t].frags = Append(@, item.chunks),
                           ![t].response = r,
                           ![t].todo = Tail(item.chunks),
                           ![t].pc = IF Tail(item.chunks) = <<>> THEN "select" ELSE "chunks"]
           /\ flowers' = [flowers EXCEPT ![tasks[t].flower] = send(@, r, t)]
      [] item.k = "end" -> Finish(t, Ok(tasks[t].response), FALSE)
      [] item.k = "err" -> Finish(t, Err, FALSE)

\* select!: stream.next() is ready and is the branch taken
Consume(t) ==
    /\ ~crashed /\ t \in DOMAIN tasks /\ tasks[t].pc = "select"
    /\ tasks[t].next # Pending
    /\ ConsumeItem(t, tasks[t].next)
    /\ TaskUnchanged

\* the remote yields item and select! takes it at once (StreamYield, then Consume)
YieldConsume(t, item) ==
    /\ ~crashed /\ t \in DOMAIN tasks /\ tasks[t].pc = "select"
    /\ tasks[t].next = Pending
    /\ item.k = "frag" => item.chunks \in GenFragments /\ Len(tasks[t].frags) < MaxGenFrags
    /\ ConsumeItem(t, item)
    /\ TaskUnchanged

\* a further iteration of `for n in next`
ChunkStep(t) ==
    /\ ~crashed /\ t \in DOMAIN tasks /\ tasks[t].pc = "chunks"
    /\ LET r == Accumulate(tasks[t].response, Head(tasks[t].todo)) IN
       /\ tasks' = [tasks EXCEPT ![t].response = r,
                       ![t].todo = Tail(@),
                       ![t].pc = IF Tail(tasks[t].todo) = <<>> THEN "select" ELSE "chunks"]
       /\ flowers' = [flowers EXCEPT ![tasks[t].flower] = send(@, r, t)]
    /\ TaskUnchanged

\* the cancel signal observed between two chunks of a fragment (an await point
\* inside `for n in next`)
ObserveCancelInChunks(t) ==
    /\ ~crashed /\ t \in DOMAIN tasks /\ tasks[t].pc \in {"select", "chunks"}
    /\ tasks[t].rx \in {"signalled", "lagged"}
    /\ Finish(t, CancelOutcome(tasks[t].response), TRUE)
    /\ TaskUnchanged
\* the cancel branch written `Ok(_) = cancel_rx.recv()`: a lag disables it
ObserveCancelOkOnly(t) ==
    /\ ~crashed /\ t \in DOMAIN tasks /\ tasks[t].pc = "select"
    /\ tasks[t].rx = "signalled"
    /\ Finish(t, CancelOutcome(tasks[t].response), TRUE)
    /\ TaskUnchanged
\* select!: cancel_rx.recv() is ready and is the branch taken; the pattern `_`
\* takes Ok(()) and Err(Lagged) alike
ObserveCancel(t) ==
    /\ ~crashed /\ t \in DOMAIN tasks /\ tasks[t].pc = "select"
    /\ tasks[t].rx \in {"signalled", "lagged"}
    /\ Finish(t, CancelOutcome(tasks[t].response), TRUE)
    /\ TaskUnchanged

\* the future terminates abnormally while it runs; dropping the handle
\* publishes the task failure
TaskPanic(t) ==
    /\ ~crashed /\ t \in DOMAIN tasks /\ tasks[t].pc \in {"opening", "select", "chunks"}
    /\ tasks' = [tasks EXCEPT ![t].pc = "done", ![t].rx = "unsub",
                              ![t].result = [k |-> "panic", val |-> <<>>],
                              ![t].todo = <<>>, ![t].next = Pending]
    /\ flowers' = [flowers EXCEPT ![tasks[t].flower] = panicked(@, t)]
    /\ TaskUnchanged

\* OllamaClient::cancel_generation: cancel_tx.send(()) reaches every receiver
\* that exists now (a receiver that has not taken the previous value lags);
\* the Err of a send without receivers is dropped
cancel_generation(ts) ==
    [t \in DOMAIN ts |->
        [ts[t] EXCEPT !.rx = CASE @ = "unsub" -> "unsub"
                               [] @ = "empty" -> "signalled"
                               [] OTHER -> "lagged"]]

\* cancel_generation together with the record of the call in every task it
\* finds running for the first time (cancel_at, sub_at, ready_at)
CancelNoted(ts) ==
    [t \in DOMAIN ts |->
        IF ts[t].cancel_at = -1 /\ ts[t].pc # "done"
        THEN [cancel_generation(ts)[t] EXCEPT
                 !.cancel_at = Len(ts[t].frags),
                 !.sub_at = ts[t].rx # "unsub",
                 !.ready_at = ts[t].next # Pending]
        ELSE cancel_generation(ts)[t]]

\* cancel_generation as StopPromptGeneration calls it for the prompt that owns
\* mailbox fid, together with the record (stopped) in every task of that
\* prompt it finds running
StopNoted(ts, fid) ==
    [t \in DOMAIN ts |->
        [cancel_generation(ts)[t] EXCEPT
            !.stopped = @ \/ (ts[t].pc # "done" /\ ts[t].flower = fid)]]

(* ------------------------------ Prompt ---------------------------------- *)
\* PromptResponse::new(input, String::new(), model name); gen names the task
\* spawned for the entry and wr the task whose value was written last into
\* output (both only recorded for the properties; 0 = none, or an entry
\* loaded from disk)
NewResponse(input, model, gen) ==
    [input |-> input, output |-> <<>>, model |-> model, gen |-> gen, wr |-> 0]

\* Prompt::new
NewPrompt(fid, hist) ==
    [history |-> hist, new_input |-> "", ask_flower |-> fid, state |-> "Idle"]

\* remove_history that removes the front entry (pop_front) whatever the index
remove_history_front(p, history_idx) ==
    [p EXCEPT !.history = IF @ = <<>> THEN <<>> ELSE Tail(@)]
\* Prompt::remove_history
remove_history(p, history_idx) == [p EXCEPT !.history = RemoveAt(@, history_idx)]

\* generate_response that pushes the new entry at the back (push_back)
generate_response_push_back(p, input, model, gen) ==
    [p EXCEPT !.state = "Generating",
              !.history = Append(@, NewResponse(input, model, gen))]
\* Prompt::generate_response without the spawn of ask_ollama
generate_response(p, input, model, gen) ==
    [p EXCEPT !.state = "Generating",
              !.history = <<NewResponse(input, model, gen)>> \o @]

\* regenerate_response that rewrites the entry at history_idx in place
regenerate_response_inplace(p, history_idx, model, gen) ==
    IF history_idx \in 1..Len(p.history)
    THEN [p EXCEPT !.state = "Generating",
                   !.history = <<NewResponse(p.history[history_idx].input, model, gen)>>
                               \o [@ EXCEPT ![history_idx].output = <<>>]]
    ELSE p
\* Prompt::regenerate_response without the spawn: nothing happens unless
\* history.get(history_idx) is Some
regenerate_response(p, history_idx, model, gen) ==
    IF history_idx \in 1..Len(p.history)
    THEN generate_response(p, p.history[history_idx].input, model, gen)
    ELSE p

\* ask_ollama: the future is handed to the runtime (p is the prompt after the
\* push of the new entry)
ask_ollama(ts, p) ==
    Append([t \in DOMAIN ts |->
               IF ts[t].flower = p.ask_flower /\ ts[t].term = 0
               THEN [ts[t] EXCEPT !.solo = FALSE] ELSE ts[t]],
           NewTask(p.ask_flower, p.history[1].input, Len(p.history) - 1,
                   \A t \in DOMAIN ts : ts[t].flower = p.ask_flower => ts[t].term > 0))

\* flower.extract(f): every buffered progress value, in publish order
extract(f) == [f |-> [f EXCEPT !.queue = <<>>], vals |-> f.queue]

\* .finalize(f): the terminal result, if published; the mailbox is Idle again
finalize(f) ==
    IF f.result.k = "none" THEN [f |-> f, res |-> f.result]
    ELSE [f |-> [f EXCEPT !.result = [k |-> "none"], !.activated = FALSE],
          res |-> f.result]

Act(kind, idx, hidx, arg) == [kind |-> kind, idx |-> idx, hidx |-> hidx, arg |-> arg]

\* poll_ask_flower that only finalizes
poll_ask_flower_no_extract(p, f) ==
    LET fi == finalize(f)
        r == fi.res
        p2 == CASE r.k = "none" -> p
                [] r.k = "ok" ->
                     IF p.history = <<>> THEN p
                     ELSE [p EXCEPT !.history[1].output = r.val, !.history[1].wr = r.by,
                                    !.state = "Idle", !.new_input = ""]
                [] OTHER ->
                     [p EXCEPT !.history = IF @ = <<>> THEN <<>> ELSE Tail(@),
                               !.state = "Idle", !.new_input = ""]
    IN [p |-> p2, f |-> fi.f, act |-> None, crash |-> r.k = "ok" /\ p.history = <<>>,
        vals |-> <<>>, res |-> r]
\* Prompt::poll_ask_flower.  crash: history.get_mut(0).unwrap() on an empty
\* history; vals and res are what the two closures were called with
poll_ask_flower(p, f) ==
    LET ex == extract(f)
        q == ex.vals
        crash1 == q # <<>> /\ p.history = <<>>
        p1 == IF q = <<>> \/ crash1 THEN p
              ELSE [p EXCEPT !.history[1].output = q[Len(q)].val,
                             !.history[1].wr = q[Len(q)].by]
        fi == finalize(ex.f)
        r == fi.res
        crash2 == r.k = "ok" /\ p1.history = <<>>
        p2 == CASE r.k = "none" -> p1
                [] r.k = "ok" ->
                     IF crash2 THEN p1
                     ELSE [p1 EXCEPT !.history[1].output = r.val,
                                     !.history[1].wr = r.by,
                                     !.state = "Idle", !.new_input = ""]
                [] OTHER ->
                     [p1 EXCEPT !.history = IF @ = <<>> THEN <<>> ELSE Tail(@),
                                !.state = "Idle", !.new_input = ""]
        act == CASE r.k = "err" -> Act("ShowErrorDialog", 0, 0, "gen_err")
                 [] r.k = "panic" -> Act("ShowErrorDialog", 0, 0, "gen_panic")
                 [] OTHER -> None
    IN IF crash1
       THEN [p |-> p, f |-> ex.f, act |-> None, crash |-> TRUE,
             vals |-> <<q[1]>>, res |-> [k |-> "none"]]
       ELSE [p |-> p2, f |-> fi.f, act |-> act, crash |-> crash2,
             vals |-> q, res |-> r]

\* what a poll handed to the closures, recorded per producing task
Delivered(ts, vals, res) ==
    [t \in DOMAIN ts |->
        [ts[t] EXCEPT
            !.dl = @ \o [i \in 1..Len(SelectSeq(vals, LAMBDA x : x.by = t))
                           |-> SelectSeq(vals, LAMBDA x : x.by = t)[i].val],
            !.term = IF res.k # "none" /\ res.by = t THEN @ + 1 ELSE @]]

(* ------------------------------ model catalog --------------------------- *)
\* A LocalModel is represented by its name; "None" is Option::None.
RECURSIVE Contains(_, _)
\* response.iter().map(|m| &m.name)...contains(&name)
Contains(models, name) ==
    IF models = <<>> THEN FALSE
    ELSE Head(models) = name \/ Contains(Tail(models), name)

\* catalogs the remote may answer with: lists of distinct models
Catalogs == {<<>>} \cup {<<a>> : a \in Models}
            \cup {<<x[1], x[2]>> : x \in {y \in Models \X Models : y[1] # y[2]}}

\* maybe_selected that proposes the first model whatever the selection is
maybe_selected_always(response, current_selected) ==
    IF response = <<>> THEN "None" ELSE Head(response)
\* the maybe_selected computed in the future of load_local_models from the
\* selection captured when the load was started
maybe_selected(response, current_selected) ==
    IF response = <<>> THEN "None"
    ELSE IF current_selected # "None" /\ ~Contains(response, current_selected)
         THEN Head(response)
         ELSE IF current_selected = "None" THEN Head(response) ELSE "None"

\* App::load_local_models: the future captures the current selection
load_local_models(ls, om) ==
    Append(ls, [pc |-> "spawned", current_selected |-> om.selected])

\* poll_load_flower that empties the catalog when the load failed
poll_load_flower_clears_on_error(om, f) ==
    LET fi == finalize(f)
        r == fi.res
        om2 == CASE r.k = "ok" ->
                      [om EXCEPT !.available = r.val.models,
                                 !.selected = IF r.val.maybe_selected # "None"
                                              THEN r.val.maybe_selected ELSE @]
                 [] r.k \in {"err", "panic"} ->
                      [om EXCEPT !.available = <<>>, !.selected = "None"]
                 [] OTHER -> om
        act == CASE r.k = "err" -> Act("ShowErrorDialog", 0, 0, "load_err")
                 [] r.k = "panic" -> Act("ShowErrorDialog", 0, 0, "load_panic")
                 [] OTHER -> None
    IN [om |-> om2, f |-> fi.f, act |-> act, res |-> r]
\* App::poll_load_flower (no progress value is ever sent on this mailbox)
poll_load_flower(om, f) ==
    LET ex == extract(f)
        om1 == IF ex.vals = <<>> THEN om
               ELSE [om EXCEPT !.available = ex.vals[Len(ex.vals)].val]
        fi == finalize(ex.f)
        r == fi.res
        om2 == IF r.k = "ok"
               THEN [om1 EXCEPT !.available = r.val.models,
                                !.selected = IF r.val.maybe_selected # "None"
                                             THEN r.val.maybe_selected ELSE @]
               ELSE om1
        act == CASE r.k = "err" -> Act("ShowErrorDialog", 0, 0, "load_err")
                 [] r.k = "panic" -> Act("ShowErrorDialog", 0, 0, "load_panic")
                 [] OTHER -> None
    IN [om |-> om2, f |-> fi.f, act |-> act, res |-> r]

LoadUnchanged == UNCHANGED <<prompts, view, ollama_models, flowers, tasks,
                             action, crashed>>

\* handle.activate(), then list_models() is awaited
LoadActivate(l) ==
    /\ ~crashed /\ l \in DOMAIN loads /\ loads[l].pc = "spawned"
    /\ loads' = [loads EXCEPT ![l].pc = "listing"]
    /\ load_flower' = activate(load_flower)
    /\ LoadUnchanged

\* list_models() returned Ok(response)
LoadOk(l, response) ==
    /\ ~crashed /\ l \in DOMAIN loads /\ loads[l].pc = "listing"
    /\ response \in Catalogs
    /\ loads' = [loads EXCEPT ![l].pc = "done"]
    /\ load_flower' = success(load_flower,
                         [models |-> response,
                          maybe_selected |->
                              maybe_selected(response, loads[l].current_selected)], l)
    /\ LoadUnchanged

\* list_models() returned Err(e)
LoadErr(l) ==
    /\ ~crashed /\ l \in DOMAIN loads /\ loads[l].pc = "listing"
    /\ loads' = [loads EXCEPT ![l].pc = "done"]
    /\ load_flower' = error(load_flower, l)
    /\ LoadUnchanged

\* the load future terminates abnormally
LoadPanic(l) ==
    /\ ~crashed /\ l \in DOMAIN loads /\ loads[l].pc = "listing"
    /\ loads' = [loads EXCEPT ![l].pc = "done"]
    /\ load_flower' = panicked(load_flower, l)
    /\ LoadUnchanged

(* ------------------------------ frame: App::update ---------------------- *)
\* ViewModal; main_panel is 0 for Welcome and idx for Prompt(idx)
NoModal == [kind |-> "None", idx |-> 0, hidx |-> 0]

\* View::is_modal_shown
is_modal_shown(v) == v.modal.kind # "None"

\* assign_if_some!(target, expr)
assign_if_some(target, val) == IF val # None THEN val ELSE target

Ev(k, idx, hidx, arg) == [k |-> k, idx |-> idx, hidx |-> hidx, arg |-> arg]

\* App::show_left_panel: the action of the left panel for input ev
show_left_panel(v, ev) ==
    CASE ev.k = "SelectModel" -> Act("SelectOllamaModel", 0, 0, ev.arg)
      [] ev.k = "ModalCancel" /\ v.modal.kind = "Error" -> Act("CloseDialog", 0, 0, "")
      [] ev.k = "Reload" -> Act("ReloadOllamaModels", 0, 0, "")
      [] ev.k = "SelectPrompt" -> Act("SelectPrompt", ev.idx, 0, "")
      [] OTHER -> None

\* App::show_left_panel_prompts: the remove button of the prompt items
\* (Prompt::show_left_panel, add_enabled(!is_generating)) and the buttons of
\* the remove-prompt modal (View::show_remove_prompt_modal)
show_left_panel_prompts(ps, v, ev) ==
    CASE ev.k = "OpenRemovePrompt" /\ ev.idx \in DOMAIN ps
                                   /\ ps[ev.idx].state # "Generating" ->
           Act("OpenRemovePromptDialog", ev.idx, 0, "")
      [] ev.k = "ModalCancel" /\ v.modal.kind = "RemovePrompt" -> Act("CloseDialog", 0, 0, "")
      [] ev.k = "ModalRemovePrompt" ->
           IF v.modal.kind = "RemovePrompt"
           THEN Act("RemovePrompt", v.modal.idx, 0, "")
           ELSE Act("CloseDialog", 0, 0, "")
      [] OTHER -> None

\* show_prompt_history with the remove and regenerate buttons always enabled
show_prompt_history_always_enabled(p, idx, ev) ==
    CASE ev.k = "Stop" -> Act("StopPromptGeneration", idx, 0, "")
      [] ev.k = "OpenRemoveHistory" -> Act("OpenRemovePromptHistoryDialog", idx, ev.hidx, "")
      [] ev.k = "Regenerate" -> Act("RegeneratePromptResponse", idx, ev.hidx, "")
      [] OTHER -> None
\* Prompt::show_prompt_history: the buttons of the history list, drawn from the
\* prompt as it is after the poll of this frame; the remove and regenerate
\* buttons are add_enabled(!is_generating), a click on a disabled button is
\* no click
show_prompt_history(p, idx, ev) ==
    CASE ev.k = "Stop" -> Act("StopPromptGeneration", idx, 0, "")
      [] ev.k = "OpenRemoveHistory" /\ p.state # "Generating" ->
           Act("OpenRemovePromptHistoryDialog", idx, ev.hidx, "")
      [] ev.k = "Regenerate" /\ p.state # "Generating" ->
           Act("RegeneratePromptResponse", idx, ev.hidx, "")
      [] OTHER -> None

\* Prompt::show_main_panel for prompt p at index idx with mailbox f
Prompt_show_main_panel(p, f, idx, modal_shown, ev) ==
    LET is_input_interactive == p.state # "Generating"
        pt == IF ev.k = "Type" THEN [p EXCEPT !.new_input = ev.arg] ELSE p
        a1 == IF ev.k = "Enter" /\ is_input_interactive /\ ~modal_shown
                 /\ pt.new_input # ""
              THEN Act("GeneratePromptResponse", idx, 0, pt.new_input) ELSE None
        pol == IF is_active(f) THEN poll_ask_flower(pt, f)
               ELSE [p |-> pt, f |-> f, act |-> None, crash |-> FALSE,
                     vals |-> <<>>, res |-> [k |-> "none"]]
        a2 == assign_if_some(a1, pol.act)
        a3 == assign_if_some(a2, show_prompt_history(pol.p, idx, ev))
    IN [p |-> pol.p, f |-> pol.f, act |-> a3, crash |-> pol.crash,
        vals |-> pol.vals, res |-> pol.res]

\* View::show_remove_prompt_history_modal
show_remove_prompt_history_modal(v, ev) ==
    CASE ev.k = "ModalCancel" /\ v.modal.kind = "RemovePromptHistory" ->
           Act("CloseDialog", 0, 0, "")
      [] ev.k = "ModalRemove" ->
           IF v.modal.kind = "RemovePromptHistory"
           THEN Act("RemovePromptHistory", v.modal.idx, v.modal.hidx, "")
           ELSE Act("CloseDialog", 0, 0, "")
      [] OTHER -> None

\* the inputs the widgets drawn in this frame accept: ev is the user's input,
\* p the shown prompt as the frame finds it and after the prompt after the poll
EventEnabled(ev, shown, p, after) ==
    CASE ev.k = "Tick" -> TRUE
      [] ev.k = "Type" ->
           shown /\ ~is_modal_shown(view) /\ p.state # "Generating" /\ p.new_input # ev.arg
      [] ev.k = "Enter" -> shown /\ Len(tasks) < MaxTasks
      [] ev.k = "Stop" ->
           shown /\ ~is_modal_shown(view) /\ after.state = "Generating"
           /\ ev.hidx = 1 /\ after.history # <<>>
      [] ev.k = "Regenerate" ->
           shown /\ ~is_modal_shown(view)
           /\ ev.hidx \in 1..Len(after.history) /\ Len(tasks) < MaxTasks
      [] ev.k = "OpenRemoveHistory" ->
           shown /\ ~is_modal_shown(view)
           /\ ev.hidx \in 1..Len(after.history)
      [] ev.k = "ModalRemove" -> shown /\ view.modal.kind = "RemovePromptHistory"
      [] ev.k = "ModalCancel" ->
           \/ shown /\ view.modal.kind = "RemovePromptHistory"
           \/ view.modal.kind \in {"Error", "RemovePrompt"}
      [] ev.k = "OpenRemovePrompt" -> ~is_modal_shown(view) /\ ev.idx \in DOMAIN prompts
      [] ev.k = "ModalRemovePrompt" -> view.modal.kind = "RemovePrompt"
      [] ev.k = "SelectPrompt" ->
           ~is_modal_shown(view) /\ ev.idx \in DOMAIN prompts /\ view.main_panel # ev.idx
      [] ev.k = "SelectModel" ->
           ~is_modal_shown(view) /\ ollama_models.selected # "None"
           /\ Contains(ollama_models.available, ev.arg)
      [] ev.k = "Reload" -> ~is_modal_shown(view) /\ Len(loads) < MaxLoads

\* App::remove_prompt: Vec::remove(idx); an index out of range panics
\* (remove_prompt_faults)
remove_prompt(ps, idx) == RemoveAt(ps, idx)

\* Vec::remove(idx) with idx >= len panics
remove_prompt_faults(st, a) == a.kind = "RemovePrompt" /\ a.idx \notin DOMAIN st.prompts

\* App::handle_action on st = [prompts, view, om, tasks, loads]
handle_action(st, a) ==
    CASE a.kind = "StopPromptGeneration" ->
           IF a.idx \in DOMAIN st.prompts
           THEN [st EXCEPT !.tasks = StopNoted(@, st.prompts[a.idx].ask_flower),
                           !.prompts[a.idx].state = "Idle"]
           ELSE st
      [] a.kind = "GeneratePromptResponse" ->
           IF st.om.selected # "None" /\ a.idx \in DOMAIN st.prompts
           THEN LET p == generate_response(st.prompts[a.idx], a.arg, st.om.selected,
                                           Len(st.tasks) + 1)
                IN [st EXCEPT !.prompts[a.idx] = p, !.tasks = ask_ollama(@, p)]
           ELSE st
      [] a.kind = "RegeneratePromptResponse" ->
           IF st.om.selected # "None" /\ a.idx \in DOMAIN st.prompts
           THEN LET p == regenerate_response(st.prompts[a.idx], a.hidx, st.om.selected,
                                             Len(st.tasks) + 1)
                IN [st EXCEPT !.prompts[a.idx] = p,
                              !.tasks = IF a.hidx \in 1..Len(st.prompts[a.idx].history)
                                        THEN ask_ollama(@, p) ELSE @]
           ELSE st
      [] a.kind = "CloseDialog" -> [st EXCEPT !.view.modal = NoModal]
      [] a.kind = "OpenRemovePromptHistoryDialog" ->
           [st EXCEPT !.view.modal = [kind |-> "RemovePromptHistory",
                                      idx |-> a.idx, hidx |-> a.hidx]]
      [] a.kind = "RemovePromptHistory" ->
           IF a.idx \in DOMAIN st.prompts
           THEN [st EXCEPT !.view.modal = NoModal,
                           !.prompts[a.idx] = remove_history(@, a.hidx)]
           ELSE [st EXCEPT !.view.modal = NoModal]
      [] a.kind = "OpenRemovePromptDialog" ->
           [st EXCEPT !.view.modal = [kind |-> "RemovePrompt", idx |-> a.idx, hidx |-> 0]]
      [] a.kind = "RemovePrompt" ->
           [st EXCEPT !.view.modal = NoModal, !.prompts = remove_prompt(@, a.idx)]
      [] a.kind = "SelectPrompt" -> [st EXCEPT !.view.main_panel = a.idx]
      [] a.kind = "SelectOllamaModel" -> [st EXCEPT !.om.selected = a.arg]
      [] a.kind = "ShowErrorDialog" ->
           [st EXCEPT !.view.modal = [kind |-> "Error", idx |-> 0, hidx |-> 0]]
      [] a.kind = "ReloadOllamaModels" ->
           [st EXCEPT !.loads = load_local_models(@, st.om)]
      [] OTHER -> st

\* what App::show does in a frame with input ev: the state it leaves and the
\* action it returns
show(ev) ==
    LET idx == view.main_panel
        shown == idx \in DOMAIN prompts
        a0 == assign_if_some(show_left_panel(view, ev),
                             show_left_panel_prompts(prompts, view, ev))
        mp == IF shown
              THEN Prompt_show_main_panel(prompts[idx], flowers[prompts[idx].ask_flower],
                                          idx, is_modal_shown(view), ev)
              ELSE [p |-> None, f |-> None, act |-> None, crash |-> FALSE,
                    vals |-> <<>>, res |-> [k |-> "none"]]
        a1 == assign_if_some(a0, mp.act)
        a2 == IF shown THEN assign_if_some(a1, show_remove_prompt_history_modal(view, ev))
              ELSE a1
        lp == IF is_active(load_flower) /\ ~mp.crash
              THEN poll_load_flower(ollama_models, load_flower)
              ELSE [om |-> ollama_models, f |-> load_flower, act |-> None,
                    res |-> [k |-> "none"]]
    IN [shown |-> shown, crash |-> mp.crash,
        after |-> mp.p,
        flowers |-> IF shown THEN [flowers EXCEPT ![prompts[idx].ask_flower] = mp.f]
                    ELSE flowers,
        load_flower |-> lp.f,
        st |-> [prompts |-> IF shown THEN [prompts EXCEPT ![idx] = mp.p] ELSE prompts,
                view |-> view,
                om |-> lp.om,
                tasks |-> IF shown THEN Delivered(tasks, mp.vals, mp.res) ELSE tasks,
                loads |-> loads],
        act |-> assign_if_some(a2, lp.act)]

\* App::update: one frame in which the user's input is ev
Frame(ev) ==
    /\ ~crashed
    /\ \E sh \in {show(ev)} :
       /\ EventEnabled(ev, sh.shown, IF sh.shown THEN prompts[view.main_panel] ELSE None,
                       sh.after)
       /\ \E st \in {IF sh.crash THEN sh.st ELSE handle_action(sh.st, sh.act)} :
          /\ crashed' = (sh.crash \/ remove_prompt_faults(sh.st, sh.act))
          /\ flowers' = sh.flowers
          /\ load_flower' = sh.load_flower
          /\ action' = IF sh.crash THEN action ELSE sh.act
          /\ prompts' = st.prompts
          /\ view' = st.view
          /\ ollama_models' = st.om
          /\ tasks' = st.tasks
          /\ loads' = st.loads

Tick == Frame(Ev("Tick", 0, 0, ""))
TypeInput == \E i \in Inputs \cup {""} : Frame(Ev("Type", 0, 0, i))
PressEnter == Frame(Ev("Enter", 0, 0, ""))
ClickStop == Frame(Ev("Stop", 0, 1, ""))
ClickRegenerate == \E h \in 1..(MaxInitHist + MaxTasks) : Frame(Ev("Regenerate", 0, h, ""))
ClickRemoveHistory ==
    \E h \in 1..(MaxInitHist + MaxTasks) : Frame(Ev("OpenRemoveHistory", 0, h, ""))
ConfirmRemove == Frame(Ev("ModalRemove", 0, 0, ""))
CancelModal == Frame(Ev("ModalCancel", 0, 0, ""))
ClickPrompt == \E i \in DOMAIN prompts : Frame(Ev("SelectPrompt", i, 0, ""))
ClickRemovePrompt == \E i \in DOMAIN prompts : Frame(Ev("OpenRemovePrompt", i, 0, ""))
ConfirmRemovePrompt == Frame(Ev("ModalRemovePrompt", 0, 0, ""))
ClickModel == \E m \in Models : Frame(Ev("SelectModel", 0, 0, m))
ClickReload == Frame(Ev("Reload", 0, 0, ""))
\* the user replaces the text of the input field by another text
TypeText == \E i \in Texts : Frame(Ev("Type", 0, 0, i))

(* ------------------------------ specifications -------------------------- *)
\* an entry of a history loaded from disk
OldResponse == [input |-> "q0", output |-> <<"c">>, model |-> "m1", gen |-> 0, wr |-> 0]

\* The whole application with one prompt; the catalog has been loaded and is
\* left alone.
Init ==
    /\ action = None /\ crashed = FALSE
    /\ tasks = <<>>
    /\ view = [modal |-> NoModal, main_panel |-> 0]
    /\ \E n \in 0..MaxInitHist :
          prompts = <<NewPrompt(1, [i \in 1..n |-> OldResponse])>>
    /\ flowers = <<NewFlower>>
    /\ ollama_models = [selected |-> "m1", available |-> <<"m1">>]
    /\ load_flower = NewFlower
    /\ loads = <<>>

GenItems == [k : {"frag"}, chunks : GenFragments]
            \cup {[k |-> "end", chunks |-> <<>>], [k |-> "err", chunks |-> <<>>]}

Next ==
    \/ \E t \in 1..MaxTasks :
          \/ TaskActivate(t) \/ OpenOk(t) \/ OpenErr(t)
          \/ (\E item \in GenItems : YieldConsume(t, item))
          \/ ChunkStep(t) \/ ObserveCancel(t) \/ TaskPanic(t)
    \/ Tick \/ TypeInput \/ PressEnter \/ ClickStop \/ ClickRegenerate
    \/ ClickRemoveHistory \/ ConfirmRemove \/ CancelModal \/ ClickPrompt

Spec == Init /\ [][Next]_vars

(* The completion client alone: generations are started and cancel_generation
   is called at any moment, as a caller of OllamaClient may do. *)
InitClient ==
    /\ action = None /\ crashed = FALSE
    /\ tasks = <<>>
    /\ view = [modal |-> NoModal, main_panel |-> 0]
    /\ prompts = <<>>
    /\ flowers = [i \in 1..MaxTasks |-> NewFlower]
    /\ ollama_models = [selected |-> "m1", available |-> <<"m1">>]
    /\ load_flower = NewFlower
    /\ loads = <<>>

\* a caller spawns the future of ask_ollama on a mailbox of its own
ClientStart ==
    /\ Len(tasks) < MaxTasks
    /\ tasks' = Append(tasks, NewTask(Len(tasks) + 1, "q", 0, TRUE))
    /\ UNCHANGED <<prompts, view, ollama_models, flowers, load_flower, loads,
                   action, crashed>>

\* a caller calls cancel_generation
CallCancel ==
    /\ tasks' = CancelNoted(tasks)
    /\ UNCHANGED <<prompts, view, ollama_models, flowers, load_flower, loads,
                   action, crashed>>

NextClient ==
    \/ ClientStart
    \/ CallCancel
    \/ \E t \in 1..MaxTasks :
          \/ TaskActivate(t) \/ OpenOk(t) \/ OpenErr(t)
          \/ (\E item \in StreamItems : StreamYield(t, item))
          \/ Consume(t) \/ ChunkStep(t) \/ ObserveCancel(t)

SpecClient == InitClient /\ [][NextClient]_vars

(* The model catalog alone: the load started by main() is in flight. *)
InitModels ==
    /\ action = None /\ crashed = FALSE
    /\ tasks = <<>>
    /\ view = [modal |-> NoModal, main_panel |-> 0]
    /\ prompts = <<>>
    /\ flowers = <<>>
    /\ \E sel \in Models \cup {"None"} :
          /\ ollama_models = [selected |-> sel, available |-> <<>>]
          /\ loads = load_local_models(<<>>, ollama_models)
    /\ load_flower = NewFlower

NextModels ==
    \/ \E l \in 1..MaxLoads :
          \/ LoadActivate(l) \/ (\E r \in Catalogs : LoadOk(l, r))
          \/ LoadErr(l) \/ LoadPanic(l)
    \/ Tick \/ ClickModel \/ ClickReload \/ CancelModal

SpecModels == InitModels /\ [][NextModels]_vars

(* The application with one prompt whose input field is edited between
   generations that are started and stopped. *)
NextEdit ==
    \/ \E t \in 1..MaxTasks :
          \/ TaskActivate(t) \/ OpenOk(t) \/ OpenErr(t)
          \/ (\E item \in GenItems : YieldConsume(t, item))
          \/ ChunkStep(t) \/ ObserveCancel(t)
    \/ Tick \/ TypeText \/ PressEnter \/ ClickStop \/ ClickPrompt \/ CancelModal

SpecEdit == Init /\ [][NextEdit]_vars

(* The application with MaxPrompts stored prompts, each with its own mailbox
   and with a text left in its input field (new_input is stored): the user
   switches between them, generates and stops. *)
InitMulti ==
    /\ action = None /\ crashed = FALSE
    /\ tasks = <<>>
    /\ view = [modal |-> NoModal, main_panel |-> 0]
    /\ prompts = [i \in 1..MaxPrompts |-> [NewPrompt(i, <<>>) EXCEPT !.new_input = "q"]]
    /\ flowers = [i \in 1..MaxPrompts |-> NewFlower]
    /\ ollama_models = [selected |-> "m1", available |-> <<"m1">>]
    /\ load_flower = NewFlower
    /\ loads = <<>>

NextMulti ==
    \/ \E t \in 1..MaxTasks :
          \/ TaskActivate(t) \/ OpenOk(t) \/ OpenErr(t)
          \/ (\E item \in GenItems : YieldConsume(t, item))
          \/ ChunkStep(t) \/ ObserveCancel(t)
    \/ Tick \/ PressEnter \/ ClickStop \/ ClickPrompt \/ CancelModal

SpecMulti == InitMulti /\ [][NextMulti]_vars

\* The render loop keeps running frames (a frame that would change something
\* is eventually run) and every spawned future keeps being scheduled: it is
\* activated, its stream opens or fails to, the remote keeps yielding items
\* until the stream ends or errors, and the chunks of a fragment are processed.
FairMulti ==
    /\ WF_vars(Tick)
    /\ \A t \in 1..MaxTasks :
          /\ WF_vars(TaskActivate(t))
          /\ WF_vars(OpenOk(t) \/ OpenErr(t))
          /\ WF_vars(\E item \in GenItems : YieldConsume(t, item))
          /\ WF_vars(ChunkStep(t))

SpecMultiLive == SpecMulti /\ FairMulti

(* The list of prompts: MaxStored stored prompts are selected and removed;
   generations are started and stopped but their tasks do not get to run. *)
InitRemove ==
    /\ action = None /\ crashed = FALSE
    /\ tasks = <<>>
    /\ view = [modal |-> NoModal, main_panel |-> 0]
    /\ prompts = [i \in 1..MaxStored |-> [NewPrompt(i, <<>>) EXCEPT !.new_input = "q"]]
    /\ flowers = [i \in 1..MaxStored |-> NewFlower]
    /\ ollama_models = [selected |-> "m1", available |-> <<"m1">>]
    /\ load_flower = NewFlower
    /\ loads = <<>>

NextRemove ==
    \/ PressEnter \/ ClickStop \/ ClickPrompt
    \/ ClickRemovePrompt \/ ConfirmRemovePrompt \/ CancelModal

SpecRemove == InitRemove /\ [][NextRemove]_vars

(* Single operations of the action handler applied to one prompt, in any
   order, as a caller of App::handle_action may do: the history operations
   are called with indices in range and out of range, in both states. *)
OpsEntries ==
    {[input |-> "q0", output |-> <<"c">>, model |-> "m1", gen |-> 0, wr |-> 0],
     [input |-> "q1", output |-> <<>>, model |-> "m2", gen |-> 0, wr |-> 0]}

InitOps ==
    /\ action = None /\ crashed = FALSE
    /\ tasks = <<>>
    /\ view = [modal |-> NoModal, main_panel |-> 1]
    /\ \E n \in 0..MaxOpsHist : \E hist \in [1..n -> OpsEntries] :
          prompts = <<NewPrompt(1, hist)>>
    /\ flowers = <<NewFlower>>
    /\ \E sel \in {"m1", "m2"} :
          ollama_models = [selected |-> sel, available |-> <<"m1", "m2">>]
    /\ load_flower = NewFlower
    /\ loads = <<>>

\* handle_action(Some(a)) on the current state
Handle(a) ==
    \E st \in {handle_action([prompts |-> prompts, view |-> view, om |-> ollama_models,
                               tasks |-> tasks, loads |-> loads], a)} :
        /\ action' = a
        /\ prompts' = st.prompts
        /\ view' = st.view
        /\ ollama_models' = st.om
        /\ tasks' = st.tasks
        /\ loads' = st.loads
        /\ UNCHANGED <<flowers, load_flower, crashed>>

CallRemoveHistory ==
    \E i \in 1..2 : \E h \in 1..(MaxOpsHist + MaxTasks + 1) :
        Handle(Act("RemovePromptHistory", i, h, ""))

CallGenerate ==
    /\ Len(tasks) < MaxTasks
    /\ \E i \in 1..2 : \E input \in Inputs :
          Handle(Act("GeneratePromptResponse", i, 0, input))

CallStop == \E i \in 1..2 : Handle(Act("StopPromptGeneration", i, 0, ""))

NextOps == CallRemoveHistory \/ CallGenerate \/ CallStop

SpecOps == InitOps /\ [][NextOps]_vars

(* ------------------------------ properties ------------------------------ *)
\* the fragments of task t that were consumed before the first cancel call
FirstN(t) == SubSeq(tasks[t].frags, 1, tasks[t].cancel_at)

\* generate_completion of task t has returned after a cancel_generation call
\* that was made while it ran
ReturnedAfterCancel(t) ==
    t \in DOMAIN tasks /\ tasks[t].pc = "done" /\ tasks[t].cancel_at # -1

(* C5: when cancel_generation is called after the generation was started and
   before the stream has yielded a fragment (no fragment consumed, no item
   available; the stream may still be opening), generate_completion returns
   Ok("") whatever the stream yields later. *)
C5_CancelBeforeFirstFragment ==
    \A t \in DOMAIN tasks :
        (ReturnedAfterCancel(t) /\ tasks[t].cancel_at = 0 /\ ~tasks[t].ready_at)
            => tasks[t].result = Ok(<<>>)

(* C6 as stated: when cancel_generation is called after N fragments were
   consumed (the receiver exists), generate_completion returns Ok of the
   chunks of exactly those N fragments, also when the next item is already
   available at the cancel. *)
C6_ExactlyN ==
    \A t \in DOMAIN tasks :
        (ReturnedAfterCancel(t) /\ tasks[t].sub_at)
            => tasks[t].result = Ok(Flatten(FirstN(t)))

(* C6: when cancel_generation is called after N fragments were consumed (the
   receiver exists), generate_completion returns the stream's error or Ok of
   the chunks of the first k >= N fragments, never splitting a fragment; and
   k = N, through the cancel branch, when no stream item is available at the
   cancel or becomes available before the signal is observed. *)
C6_CancelAfterN ==
    \A t \in DOMAIN tasks :
        (ReturnedAfterCancel(t) /\ tasks[t].sub_at) =>
            /\ tasks[t].result.k \in {"ok", "err"}
            /\ tasks[t].result.k = "ok" =>
                  /\ tasks[t].result.val = Flatten(tasks[t].frags)
                  /\ Len(tasks[t].frags) >= tasks[t].cancel_at
            /\ tasks[t].by_cancel => tasks[t].result.k = "ok"
            /\ (~tasks[t].ready_at /\ ~tasks[t].ready_after) =>
                  /\ tasks[t].by_cancel
                  /\ tasks[t].result = Ok(Flatten(FirstN(t)))
                  /\ Len(tasks[t].frags) = tasks[t].cancel_at

\* a generation cancelled after one fragment of two chunks, with nothing
\* further available, has returned
C6_Witness ==
    \E t \in DOMAIN tasks :
        /\ ReturnedAfterCancel(t) /\ tasks[t].sub_at
        /\ tasks[t].cancel_at = 1 /\ tasks[t].frags = <<(<<"b", "c">>)>>
        /\ ~tasks[t].ready_at /\ ~tasks[t].ready_after
        /\ tasks[t].by_cancel

\* the progress values task t has published: one per chunk, each the
\* transcript so far
Sent(t) == [n \in 1..Len(tasks[t].response) |-> SubSeq(tasks[t].response, 1, n)]

\* task t produces for the mailbox of prompt i
Produces(t, i) == prompts[i].ask_flower = tasks[t].flower

\* in this step a poll handed the terminal result of task t to poll_ask_flower
TerminalHanded(t) == tasks'[t].term > tasks[t].term

(* C1: for every prompt, at most one generation is in flight (spawned and not
   yet published its terminal outcome) at any time. *)
C1_OneInFlight ==
    \A i \in DOMAIN prompts :
        Cardinality({t \in DOMAIN tasks : Produces(t, i) /\ InFlight(t)}) <= 1

(* C2: a value published by a cancelled generation never changes the output
   of the history entry created by a newer generation (the last writer of an
   entry is never an older task than the entry's own), and an error or task
   failure of a cancelled generation never removes the entry of a newer one. *)
C2_LateValueDiscarded ==
    [][/\ \A i \in DOMAIN prompts' : \A h \in DOMAIN prompts'[i].history :
             \/ prompts'[i].history[h].wr = 0
             \/ prompts'[i].history[h].wr >= prompts'[i].history[h].gen
       /\ \A t \in DOMAIN tasks : \A i \in DOMAIN prompts :
             (/\ Produces(t, i) /\ TerminalHanded(t)
              /\ tasks[t].result.k \in {"err", "panic"}
              /\ prompts[i].history # <<>>)
                => prompts[i].history[1].gen <= t]_vars

(* C3: the terminal result a generation's task published is handed to the
   terminal handler exactly once and after all of the task's progress values:
   it is never handed twice, and while it has not been handed it is the
   result waiting in the mailbox, which reports active. *)
C3_TerminalExactlyOnce ==
    \A t \in DOMAIN tasks :
        /\ tasks[t].term <= 1
        /\ tasks[t].term = 1 => tasks[t].dl = Sent(t)
        /\ (tasks[t].pc = "done" /\ tasks[t].term = 0 /\ ~crashed) =>
              /\ flowers[tasks[t].flower].result.k # "none"
              /\ flowers[tasks[t].flower].result.by = t
              /\ is_active(flowers[tasks[t].flower])

(* C4: with a single producer on the mailbox, the polls deliver the progress
   values sent so far in send order, each at most once, and the terminal
   value once, after every progress value was delivered exactly once. *)
C4_InOrderOnce ==
    \A t \in DOMAIN tasks :
        tasks[t].solo =>
            /\ IsPrefix(tasks[t].dl, Sent(t))
            /\ tasks[t].term <= 1
            /\ tasks[t].term = 1 => tasks[t].pc = "done" /\ tasks[t].dl = Sent(t)

\* a single producer sent two progress values and its success; all were polled
C4_Witness ==
    \E t \in DOMAIN tasks :
        /\ tasks[t].solo /\ tasks[t].term = 1 /\ tasks[t].result.k = "ok"
        /\ tasks[t].dl = <<(<<"a">>), (<<"a", "b">>)>>

(* C7: a generation that stopped on the cancellation signal returned Ok of
   the transcript accumulated so far, and the frame that consumes that
   outcome keeps the generation's history entry, with that transcript as its
   output, and raises no error report. *)
C7_CancelIsSuccess ==
    [][\A t \in DOMAIN tasks : \A i \in DOMAIN prompts :
          (/\ Produces(t, i) /\ tasks[t].by_cancel /\ TerminalHanded(t)
           /\ action'.kind # "RemovePromptHistory")
             => /\ tasks[t].result = Ok(tasks[t].response)
                /\ ~crashed'
                /\ action'.kind # "ShowErrorDialog"
                /\ \E h \in DOMAIN prompts'[i].history :
                      /\ prompts'[i].history[h].gen = t
                      /\ prompts'[i].history[h].output = tasks[t].result.val]_vars

(* C8: after the frame that consumes an error or a task failure as the
   terminal outcome of a generation, the history has the length it had before
   that generation's generate_response call and the state is Idle. *)
C8_ErrorRestoresHistory ==
    [][\A t \in DOMAIN tasks : \A i \in DOMAIN prompts :
          (/\ Produces(t, i) /\ TerminalHanded(t)
           /\ tasks[t].result.k \in {"err", "panic"}
           /\ action'.kind = "ShowErrorDialog")
             => /\ Len(prompts'[i].history) = tasks[t].pre_len
                /\ prompts'[i].state = "Idle"]_vars

(* C9: the frame that handles RegeneratePromptResponse(idx, h) with h a valid
   index leaves every entry the history had unchanged, one position further
   (the entry that was at h is at h+1), puts a new entry with the same input
   and an empty output at the front, and makes the history one entry longer. *)
C9_RegenerateKeepsEntry ==
    [][(Len(tasks') = Len(tasks) + 1 /\ action'.kind = "RegeneratePromptResponse") =>
          LET h == action'.hidx
              old == show(Ev("Regenerate", 0, h, "")).after.history
              new == prompts'[action'.idx].history
          IN /\ h \in 1..Len(old)
             /\ Len(new) = Len(old) + 1
             /\ new[h + 1] = old[h]
             /\ \A j \in 1..Len(old) : new[j + 1] = old[j]
             /\ new[1].input = old[h].input
             /\ new[1].output = <<>>]_vars

\* a response was regenerated from an entry that has an output: the new entry
\* is at the front, its task not yet run
C9_Witness ==
    /\ action.kind = "RegeneratePromptResponse"
    /\ Len(tasks) >= 1 /\ tasks[Len(tasks)].pc = "spawned"
    /\ action.idx \in DOMAIN prompts
    /\ LET hist == prompts[action.idx].history IN
          /\ action.hidx + 1 \in DOMAIN hist
          /\ hist[1].gen = Len(tasks) /\ hist[1].output = <<>>
          /\ hist[action.hidx + 1].output # <<>>
          /\ hist[1].input = hist[action.hidx + 1].input

(* C10: the frame that consumes the result of a successful catalog reload
   (and handles no selection of the user's) leaves selected unchanged when
   the catalog is empty or lists the selected model, and makes it the first
   model of the catalog when nothing was selected or the selected model is
   not listed; selected being the selection at the consumption. *)
C10_ReloadSelection ==
    [][(/\ load_flower.result.k = "ok" /\ load_flower'.result.k = "none"
        /\ action'.kind # "SelectOllamaModel") =>
          LET sel == ollama_models.selected
              cat == load_flower.result.val.models
          IN ollama_models'.selected =
                IF cat = <<>> THEN sel
                ELSE IF sel = "None" \/ ~Contains(cat, sel) THEN Head(cat)
                ELSE sel]_vars

(* C11: whenever a prompt is Generating, its history is non-empty and its
   front entry is the one pushed for the generation in progress (a task of
   this prompt whose terminal result has not been consumed), and the value
   last written into that entry came from that generation's own task. *)
C11_FrontIsOwnEntry ==
    \A i \in DOMAIN prompts :
        prompts[i].state = "Generating" =>
            /\ prompts[i].history # <<>>
            /\ prompts[i].history[1].gen \in DOMAIN tasks
            /\ Produces(prompts[i].history[1].gen, i)
            /\ tasks[prompts[i].history[1].gen].term = 0
            /\ prompts[i].history[1].wr \in {0, prompts[i].history[1].gen}

(* C12: in every step, the output of every history entry that stays in the
   history is replaced only by an extension of what it was (the previous
   output is a prefix of the new one), and the only task that ever writes
   into an entry is the task of the entry's own generation (an entry loaded
   from storage is never written). *)
C12_OutputAppendOnly ==
    [][\A i \in DOMAIN prompts : \A n \in DOMAIN prompts'[i].history :
          /\ prompts'[i].history[n].wr \in {0, prompts'[i].history[n].gen}
          /\ \A h \in DOMAIN prompts[i].history :
                (/\ prompts[i].history[h].gen = prompts'[i].history[n].gen
                 /\ prompts[i].history[h].gen # 0)
                   => IsPrefix(prompts[i].history[h].output,
                               prompts'[i].history[n].output)]_vars

(* C13: the render loop never faults: no poll delivers a progress value or a
   successful terminal result while the prompt's history is empty (crashed
   records that history.get_mut(0).unwrap() was reached with no entry). *)
C13_PollNeverFaults == ~crashed

\* the values task t has sent or published on mailbox f
PublishedBy(f, t) ==
    <<SelectSeq(f.queue, LAMBDA x : x.by = t),
      IF f.result.k # "none" /\ f.result.by = t THEN f.result ELSE [k |-> "none"]>>

(* C14: when the opening of the stream fails, or generate_completion takes an
   error from the stream at any position, the step is its return: the result
   is the error (published as handle.error), not a success with the
   transcript so far, and no progress callback runs in that step; after its
   return it consumes no fragment and publishes nothing more. *)
C14_ErrorIsTerminal ==
    [][\A t \in DOMAIN tasks :
          /\ (\/ tasks[t].pc = "opening"
              \/ tasks[t].pc = "select" /\ tasks[t].next.k = "err"
                                        /\ tasks'[t].next = Pending)
             /\ tasks'[t].pc # tasks[t].pc /\ ~tasks'[t].by_cancel
             /\ (tasks[t].pc = "opening" => tasks'[t].pc # "select")
               => /\ tasks'[t].pc = "done"
                  /\ tasks'[t].result = Err
                  /\ flowers'[tasks[t].flower].result.k = "err"
                  /\ flowers'[tasks[t].flower].result.by = t
                  /\ flowers'[tasks[t].flower].queue = flowers[tasks[t].flower].queue
                  /\ tasks'[t].frags = tasks[t].frags
          /\ tasks[t].pc = "done"
               => /\ tasks'[t].pc = "done"
                  /\ tasks'[t].result = tasks[t].result
                  /\ tasks'[t].frags = tasks[t].frags
                  /\ tasks'[t].response = tasks[t].response
                  /\ PublishedBy(flowers'[tasks[t].flower], t)
                        = PublishedBy(flowers[tasks[t].flower], t)]_vars

\* a stream yielded one fragment and then an error: the generation, never
\* cancelled, has returned the error
C14_Witness ==
    \E t \in DOMAIN tasks :
        /\ tasks[t].pc = "done" /\ tasks[t].result = Err
        /\ tasks[t].cancel_at = -1 /\ ~tasks[t].by_cancel
        /\ tasks[t].response = <<"b", "c">>
        /\ flowers[tasks[t].flower].result.k = "err"

\* the values the progress callback of task t was invoked with, in order
Callbacks(t) ==
    [n \in 1..Len(SelectSeq(flowers[tasks[t].flower].queue, LAMBDA x : x.by = t)) |->
        SelectSeq(flowers[tasks[t].flower].queue, LAMBDA x : x.by = t)[n].val]

(* C15: when the stream ended without error and cancel_generation was not
   called during the generation, the progress callback was invoked once per
   chunk, in arrival order, the k-th time with the concatenation of the first
   k chunks, and generate_completion returned Ok of the concatenation of all
   chunks (the last callback value, or "" when there was no chunk). *)
C15_CallbackPerChunk ==
    \A t \in DOMAIN tasks :
        (/\ tasks[t].pc = "done" /\ tasks[t].cancel_at = -1
         /\ tasks[t].result.k = "ok") =>
            LET all == Flatten(tasks[t].frags) IN
            /\ tasks[t].result = Ok(all)
            /\ Callbacks(t) = [k \in 1..Len(all) |-> SubSeq(all, 1, k)]
            /\ all # <<>> => tasks[t].result.val = Callbacks(t)[Len(all)]

\* a stream of two fragments (three chunks) ended and the generation, never
\* cancelled, has returned
C15_Witness ==
    \E t \in DOMAIN tasks :
        /\ tasks[t].pc = "done" /\ tasks[t].cancel_at = -1
        /\ tasks[t].frags = <<(<<"a">>), (<<"b", "c">>)>>
        /\ tasks[t].result = Ok(<<"a", "b", "c">>)
        /\ Len(Callbacks(t)) = 3

(* C16: after the frame that consumes the terminal success of a generation
   that was never stopped and did not fail (and handles no action), the
   prompt is Idle, the held input is empty, the history is one entry longer
   than before the generation's generate_response call and the output of the
   front entry is the concatenation of all chunks of the stream. *)
C16_SuccessCompletes ==
    [][\A t \in DOMAIN tasks : \A i \in DOMAIN prompts :
          (/\ Produces(t, i) /\ TerminalHanded(t)
           /\ tasks[t].result.k = "ok" /\ ~tasks[t].stopped
           /\ action'.kind = "None")
             => /\ ~crashed'
                /\ prompts'[i].state = "Idle"
                /\ prompts'[i].new_input = ""
                /\ Len(prompts'[i].history) = tasks[t].pre_len + 1
                /\ prompts'[i].history[1].output = Flatten(tasks[t].frags)]_vars

(* C17: the frame that consumes a terminal error (recoverable error or task
   failure) of a generation handles the ShowErrorDialog action produced for
   it, whatever else happens in the frame, and leaves the error dialog open. *)
C17_ErrorReachesUser ==
    [][\A t \in DOMAIN tasks :
          (TerminalHanded(t) /\ tasks[t].result.k \in {"err", "panic"})
             => /\ action'.kind = "ShowErrorDialog"
                /\ view'.modal.kind = "Error"]_vars

(* C18: the frame that executes generate_response or regenerate_response
   (handles GeneratePromptResponse or RegeneratePromptResponse and spawns the
   task) finds the prompt Idle when the action is produced and when it is
   handled, i.e. before and after the poll of that frame. *)
C18_GenerateOnlyWhenIdle ==
    [][(/\ Len(tasks') = Len(tasks) + 1
        /\ action'.kind \in {"GeneratePromptResponse", "RegeneratePromptResponse"}) =>
          LET sh == show(IF action'.kind = "GeneratePromptResponse"
                         THEN Ev("Enter", 0, 0, "")
                         ELSE Ev("Regenerate", 0, action'.hidx, ""))
          IN /\ sh.shown /\ sh.act = action'
             /\ sh.after.state = "Idle"
             /\ action'.kind = "GeneratePromptResponse"
                   => prompts[action'.idx].state = "Idle"]_vars

\* a second generation has just been started by Enter
C18_Witness ==
    /\ action.kind = "GeneratePromptResponse"
    /\ Len(tasks) = 2 /\ tasks[2].pc = "spawned"
    /\ action.idx \in DOMAIN prompts
    /\ prompts[action.idx].state = "Generating"
    /\ prompts[action.idx].history[1].gen = 2

(* C19: a task calls activate() only on an Idle mailbox: in the step in which
   a generation task or a load task activates its mailbox, the mailbox was
   not active (activated by an earlier task whose terminal result no poll
   has consumed yet). *)
C19_ActivateOnlyIdle ==
    [][/\ \A t \in DOMAIN tasks :
             (tasks[t].pc = "spawned" /\ tasks'[t].pc = "opening")
                => ~is_active(flowers[tasks[t].flower])
       /\ \A l \in DOMAIN loads :
             (loads[l].pc = "spawned" /\ loads'[l].pc = "listing")
                => ~is_active(load_flower)]_vars

(* C20: a cancellation reaches only the receivers that exist when it is
   issued: a receiver is created empty whatever was cancelled before, it
   becomes signalled only in a cancel_generation call made while it exists,
   and generate_completion returns through the cancel branch only on such a
   signal; otherwise it keeps consuming its stream. *)
C20_CancelOnlyCurrentListeners ==
    [][\A t \in DOMAIN tasks :
          /\ (tasks[t].rx = "unsub" /\ tasks'[t].rx # "unsub")
                => tasks'[t].rx = "empty"
          /\ (tasks[t].rx # "signalled" /\ tasks'[t].rx = "signalled")
                => /\ tasks[t].rx = "empty"
                   /\ \A u \in DOMAIN tasks : tasks'[u].pc = tasks[u].pc
                   /\ flowers' = flowers
          /\ (tasks'[t].by_cancel /\ ~tasks[t].by_cancel)
                => tasks[t].rx \in {"signalled", "lagged"}
                   /\ tasks[t].cancel_at # -1]_vars

\* cancel_generation was called while the stream of a generation was still
\* opening; the generation then consumed a fragment and the end of its stream
C20_Witness ==
    \E t \in DOMAIN tasks :
        /\ tasks[t].cancel_at = 0 /\ ~tasks[t].sub_at
        /\ tasks[t].pc = "done" /\ ~tasks[t].by_cancel
        /\ tasks[t].result = Ok(<<"a">>)

(* C22: cancel_generation can be called in every state, whatever the number
   of receivers (none included), and the call changes nothing but the
   receivers: no task moves, nothing is published, nothing faults.  Calling
   it again before a subscribed generation has observed the signal leaves the
   generation stoppable exactly as one call does: at its select! the cancel
   branch can be taken and returns Ok of the transcript so far. *)
C22_CancelNeverFailsIdempotent ==
    [][/\ ENABLED CallCancel
       /\ tasks' = CancelNoted(tasks) =>
             /\ flowers' = flowers /\ crashed' = crashed
             /\ \A t \in DOMAIN tasks :
                   /\ tasks'[t].pc = tasks[t].pc
                   /\ tasks'[t].response = tasks[t].response
                   /\ tasks'[t].result = tasks[t].result
                   /\ (tasks[t].rx = "unsub") = (tasks'[t].rx = "unsub")
       /\ \A t \in DOMAIN tasks :
             /\ (tasks[t].pc = "select" /\ tasks[t].rx \in {"signalled", "lagged"})
                   => ENABLED (ObserveCancel(t)
                               /\ tasks'[t].result = Ok(tasks[t].response))
             /\ (tasks'[t].by_cancel /\ ~tasks[t].by_cancel)
                   => tasks'[t].result = Ok(tasks[t].response)]_vars

\* cancel_generation was called twice after a generation had consumed one
\* fragment and before it observed the signal, and once more with no receiver
C22_Witness ==
    /\ \E t \in DOMAIN tasks :
          /\ tasks[t].pc = "select" /\ tasks[t].rx = "lagged"
          /\ tasks[t].response = <<"b", "c">> /\ tasks[t].cancel_at = 1
    /\ \E t \in DOMAIN tasks : tasks[t].pc = "done" /\ tasks[t].by_cancel
    /\ \A t \in DOMAIN tasks : tasks[t].pc = "done" \/ tasks[t].rx = "lagged"

(* C28: whatever the stream yields and whenever cancel_generation is called,
   a successful result of generate_completion is the concatenation, in order,
   of all chunks of the fragments it consumed (the first k of the stream): no
   fragment is split or skipped, and the progress callback was invoked once
   per chunk of those fragments, in order, each time with the transcript so
   far, and for no other chunk. *)
C28_WholeFragments ==
    \A t \in DOMAIN tasks :
        (tasks[t].pc = "done" /\ tasks[t].result.k = "ok") =>
            LET all == Flatten(tasks[t].frags) IN
            /\ tasks[t].result.val = all
            /\ Callbacks(t) = [k \in 1..Len(all) |-> SubSeq(all, 1, k)]

\* a generation was cancelled while the second fragment, of two chunks, was
\* available: it consumed that fragment whole and then stopped on the signal
C28_Witness ==
    \E t \in DOMAIN tasks :
        /\ tasks[t].pc = "done" /\ tasks[t].by_cancel
        /\ tasks[t].cancel_at = 1 /\ tasks[t].ready_at
        /\ tasks[t].frags = <<(<<"a">>), (<<"b", "c">>)>>
        /\ tasks[t].result = Ok(<<"a", "b", "c">>)
        /\ Len(Callbacks(t)) = 3

(* C21: handling RemovePromptHistory(idx, h) never changes the state of any
   prompt, whatever idx and h are and whether the prompt is Idle or
   Generating; with h in range the history of prompt idx loses exactly the
   entry at h, the other entries keeping their order, and with h (or idx) out
   of range no history changes. *)
C21_RemoveHistoryOnlyThatEntry ==
    [][action'.kind = "RemovePromptHistory" =>
          /\ DOMAIN prompts' = DOMAIN prompts
          /\ \A i \in DOMAIN prompts :
                LET old == prompts[i].history
                    new == prompts'[i].history
                    h == action'.hidx
                IN /\ prompts'[i].state = prompts[i].state
                   /\ prompts'[i].new_input = prompts[i].new_input
                   /\ IF i = action'.idx /\ h \in 1..Len(old)
                      THEN /\ Len(new) = Len(old) - 1
                           /\ \A j \in 1..(h - 1) : new[j] = old[j]
                           /\ \A j \in h..Len(new) : new[j] = old[j + 1]
                      ELSE new = old]_vars

\* the second of three entries was removed while the prompt was Generating
C21_Witness ==
    /\ action.kind = "RemovePromptHistory" /\ action.idx = 1 /\ action.hidx = 2
    /\ prompts[1].state = "Generating"
    /\ Len(prompts[1].history) = 2
    /\ prompts[1].history[1].gen = 1
    /\ prompts[1].history[2].input = "q1"

(* C24: handling GeneratePromptResponse(idx, input) for an Idle prompt, a
   model being selected, puts exactly one new entry at the front of the
   history, with that input, an empty output and the selected model's name,
   keeps every earlier entry unchanged one position further, sets the state
   to Generating and spawns exactly one task, on the prompt's mailbox, leaving
   the other tasks where they are. *)
C24_GeneratePushesFront ==
    [][(/\ action'.kind = "GeneratePromptResponse"
        /\ action'.idx \in DOMAIN prompts
        /\ prompts[action'.idx].state = "Idle"
        /\ ollama_models.selected # "None") =>
          LET old == prompts[action'.idx].history
              new == prompts'[action'.idx].history
          IN /\ Len(new) = Len(old) + 1
             /\ new[1].input = action'.arg
             /\ new[1].output = <<>>
             /\ new[1].model = ollama_models.selected
             /\ \A j \in 1..Len(old) : new[j + 1] = old[j]
             /\ prompts'[action'.idx].state = "Generating"
             /\ Len(tasks') = Len(tasks) + 1
             /\ tasks'[Len(tasks')].pc = "spawned"
             /\ tasks'[Len(tasks')].flower = prompts[action'.idx].ask_flower
             /\ \A t \in DOMAIN tasks :
                   /\ tasks'[t].pc = tasks[t].pc
                   /\ tasks'[t].flower = tasks[t].flower]_vars

\* a second response was generated, with model m2, for a prompt that had three
\* entries and was Idle after a stop
C24_Witness ==
    /\ action.kind = "GeneratePromptResponse" /\ action.idx = 1
    /\ Len(tasks) = 2 /\ tasks[1].stopped /\ tasks[2].pc = "spawned"
    /\ prompts[1].state = "Generating"
    /\ Len(prompts[1].history) = 4
    /\ prompts[1].history[1] = NewResponse("q", "m2", 2)
    /\ prompts[1].history[2].gen = 1
    /\ prompts[1].history[4].input = "q0"

\* in this step a poll consumed the terminal result of a load, of kind k
LoadConsumed(k) == load_flower.result.k = k /\ load_flower'.result.k = "none"

(* C25: available changes only in a frame whose poll consumes a successful
   load; selected changes only in such a frame or in one that handles
   SelectOllamaModel; and the frame that consumes a failed load (recoverable
   error or task failure) leaves available and selected unchanged and handles
   one ShowErrorDialog action, which opens the error dialog. *)
C25_CatalogChangesOnlyByLoad ==
    [][/\ ollama_models'.available # ollama_models.available => LoadConsumed("ok")
       /\ ollama_models'.selected # ollama_models.selected =>
             LoadConsumed("ok") \/ action'.kind = "SelectOllamaModel"
       /\ (LoadConsumed("err") \/ LoadConsumed("panic")) =>
             /\ ollama_models' = ollama_models
             /\ action'.kind = "ShowErrorDialog"
             /\ action'.arg = (IF LoadConsumed("err") THEN "load_err" ELSE "load_panic")
             /\ view'.modal.kind = "Error"]_vars

\* a catalog was loaded, the user selected its second model, and a reload
\* that failed has been consumed: the catalog and the selection are as before
C25_Witness ==
    /\ action.kind = "ShowErrorDialog" /\ action.arg = "load_err"
    /\ view.modal.kind = "Error"
    /\ load_flower.result.k = "none"
    /\ Len(loads) = 2 /\ \A l \in DOMAIN loads : loads[l].pc = "done"
    /\ Len(ollama_models.available) = 2
    /\ ollama_models.selected = ollama_models.available[2]

(* C30: the frame that handles RemovePrompt(idx) leaves the main panel showing
   the prompt it showed before (the prompt that owns the same mailbox) or no
   prompt at all, whichever prompt is removed and whichever is selected. *)
C30_RemoveKeepsSelection ==
    [][(action'.kind = "RemovePrompt" /\ Len(prompts') < Len(prompts)) =>
          (view'.main_panel \in DOMAIN prompts' =>
              /\ view.main_panel \in DOMAIN prompts
              /\ prompts'[view'.main_panel].ask_flower
                    = prompts[view.main_panel].ask_flower)]_vars

(* C26: a generation leaves through the cancel branch, with the transcript
   cut short, only if StopPromptGeneration was handled for its own prompt
   while it ran: stopping prompt i does not stop a generation in flight for
   another prompt j, whose result is the full transcript of its stream. *)
C26_StopIsPerPrompt ==
    \A t \in DOMAIN tasks :
        (tasks[t].pc = "done" /\ ~tasks[t].stopped) => ~tasks[t].by_cancel

(* C23: while frames keep running and every stream eventually ends or errors,
   a prompt that is Generating eventually is Idle again (or the render loop
   has faulted), whichever prompt the main panel shows meanwhile. *)
C23_GeneratingReturnsIdle ==
    \A i \in 1..MaxPrompts :
        (prompts[i].state = "Generating") ~> (prompts[i].state = "Idle" \/ crashed)

\* the task of the generation that last set prompt i to Generating: the
\* newest task spawned on its mailbox
CurrentTask(i) ==
    CHOOSE t \in DOMAIN tasks :
        /\ Produces(t, i)
        /\ \A u \in DOMAIN tasks : Produces(u, i) => u <= t

(* C27: a prompt goes from Generating to Idle only in a frame that hands over
   the terminal outcome of the generation that set it to Generating or that
   handles the stop of that generation; and while it is Generating its held
   input changes only in a frame that hands over that generation's terminal
   outcome (never on the outcome of an earlier, cancelled generation). *)
C27_IdleOnlyByOwnOutcome ==
    [][\A i \in DOMAIN prompts :
          prompts[i].state = "Generating" =>
             /\ prompts'[i].state = "Idle" =>
                   \/ TerminalHanded(CurrentTask(i))
                   \/ action'.kind = "StopPromptGeneration" /\ action'.idx = i
             /\ prompts'[i].new_input # prompts[i].new_input =>
                   TerminalHanded(CurrentTask(i))]_vars

(* C29: the held input of a prompt is emptied only in a frame that hands over
   the terminal outcome of a generation that was started from that text, and
   the frame that handles the stop of a generation (and hands over no
   terminal outcome) leaves the held input as it was: a text typed after the
   stop is not erased by the stopped generation. *)
C29_TypedTextKept ==
    [][\A i \in DOMAIN prompts :
          /\ (prompts[i].new_input # "" /\ prompts'[i].new_input = "") =>
                \E t \in DOMAIN tasks :
                    /\ Produces(t, i) /\ TerminalHanded(t)
                    /\ tasks[t].question = prompts[i].new_input
          /\ (/\ action'.kind = "StopPromptGeneration" /\ prompts'[i].state # prompts[i].state
              /\ \A t \in DOMAIN tasks : ~TerminalHanded(t))
                => prompts'[i].new_input = prompts[i].new_input]_vars

====
